---- MODULE Spec2Model ----
(***************************************************************************)
(* Model of pomodoros (src/main.rs): the PomodoroApp timer state machine   *)
(* and the interactive loop of main() that polls input, dispatches keys,   *)
(* calls update() and draws.                                               *)
(*                                                                         *)
(* Durations and instants are natural numbers of one abstract time unit.   *)
(* The poll timeout (--tick) is not a state variable: event::poll may      *)
(* return after any amount of elapsed time, which is the union of the      *)
(* behaviours over all values of --tick (0 included).                      *)
(***************************************************************************)
EXTENDS Integers, Sequences, FiniteSets, TLC

\* ---- bounds of the model -------------------------------------------------
MaxDur == 2          \* configured durations range over 0..MaxDur
MaxEvery == 2        \* --every ranges over 0..MaxEvery
MaxNow == 2          \* the wall clock runs from 0 to MaxNow
MaxCompleted == 2    \* completed_focus is capped at MaxCompleted

\* ---- data ----------------------------------------------------------------
Phase == {"Focus", "ShortBreak", "LongBreak"}

\* CliArgs -> PomodoroConfig (main): every u64/u32 value is accepted, no
\* validation; zero durations and long_every = 0 included.
PomodoroConfig ==
  [focus : 0..MaxDur, short_break : 0..MaxDur, long_break : 0..MaxDur,
   long_every : 0..MaxEvery, mute : BOOLEAN]

\* the configurations explored: every unmuted one; --mute is read by the bell
\* alone, so the muted ones are taken with three equal durations
Configs ==
  {c \in PomodoroConfig :
     c.mute => (c.short_break = c.focus /\ c.long_break = c.focus)}

KeyCode == {"q", "Esc", "c", " ", "n", "Right", "r", "Q", "N", "R"}
KeyEventKind == {"Press", "Release"}
KeyModifiers == {{}, {"CONTROL"}}

\* key presses with every modifier set, releases of the bound keys
KeyEvents ==
  [type : {"Key"}, kind : {"Press"}, code : KeyCode, modifiers : KeyModifiers]
    \cup [type : {"Key"}, kind : {"Release"}, code : {"q", " ", "n", "r"},
          modifiers : {{}}]
\* an event that is not Event::Key (mouse capture is enabled, resize, ...)
OtherEvent == [type |-> "Mouse", kind |-> "Press", code |-> "x", modifiers |-> {}]
Event == KeyEvents \cup {OtherEvent}
NoEvent == [type |-> "None", kind |-> "Press", code |-> "x", modifiers |-> {}]

VARIABLES
  config,           \* PomodoroApp.config
  phase,            \* PomodoroApp.phase
  total,            \* PomodoroApp.total
  remaining,        \* PomodoroApp.remaining
  running,          \* PomodoroApp.running
  completed_focus,  \* PomodoroApp.completed_focus
  last_tick,        \* PomodoroApp.last_tick
  now,              \* the monotonic clock read by Instant::now()
  last_redraw,      \* main: last_redraw
  pc,               \* position of main()
  ev,               \* the event returned by event::read() in this iteration
  terminal,         \* raw mode / alternate screen of the terminal
  exit_status,      \* how main() ended ("none" while it runs)
  resumed_at,       \* instant of the toggle() that resumed the timer in this
                    \* iteration, -1 when this iteration did not resume it
  bell              \* TRUE iff the last step wrote the BEL character to stdout

vars == <<config, phase, total, remaining, running, completed_focus, last_tick,
          now, last_redraw, pc, ev, terminal, exit_status, resumed_at,
          bell>>

app == <<phase, total, remaining, running, completed_focus, last_tick>>

\* ---- pure helpers --------------------------------------------------------

\* variant of ConfiguredDuration: the LongBreak arm returns short_break
ConfiguredDuration_LongAsShort(p) ==
  CASE p = "Focus" -> config.focus
    [] p = "ShortBreak" -> config.short_break
    [] p = "LongBreak" -> config.short_break

\* the match of reset_current: the configured duration of a phase
ConfiguredDuration(p) ==
  CASE p = "Focus" -> config.focus
    [] p = "ShortBreak" -> config.short_break
    [] p = "LongBreak" -> config.long_break

\* variant of NextOnSkip: the Focus arm applies the long-break cadence
NextOnSkip_Cadence(p) ==
  CASE p = "Focus" ->
         (IF config.long_every > 0 /\ completed_focus % config.long_every = 0
          THEN "LongBreak" ELSE "ShortBreak")
    [] p = "ShortBreak" -> "Focus"
    [] p = "LongBreak" -> "Focus"

\* the match of to_next_phase
NextOnSkip(p) ==
  CASE p = "Focus" -> "ShortBreak"
    [] p = "ShortBreak" -> "Focus"
    [] p = "LongBreak" -> "Focus"

\* variant of UseLong: the count before the increment decides
UseLong_BeforeIncrement(c) == (c - 1) % config.long_every = 0

\* on_finish: let use_long = completed_focus % long_every == 0 (long_every > 0)
UseLong(c) == c % config.long_every = 0

\* variant of NextOnFinish: the LongBreak arm does not return to Focus
NextOnFinish_LongStays(p, c) ==
  IF p = "Focus" THEN (IF UseLong(c) THEN "LongBreak" ELSE "ShortBreak")
  ELSE IF p = "ShortBreak" THEN "Focus"
  ELSE "LongBreak"

\* the match of on_finish, c is the count after the increment
NextOnFinish(p, c) ==
  IF p = "Focus" THEN (IF UseLong(c) THEN "LongBreak" ELSE "ShortBreak")
  ELSE "Focus"

\* variant of SaturatingDurationSince: operands swapped, no saturation
SaturatingDurationSince_Swapped(a, b) == b - a

\* Instant::saturating_duration_since
SaturatingDurationSince(a, b) == IF a >= b THEN a - b ELSE 0

\* the frame cap of main: Duration::from_millis(16), one time unit here
FrameInterval == 1

\* variant of KeyAction: the skip arm also takes the uppercase letter
KeyAction_SkipAnyCase(e) ==
  IF e.type # "Key" \/ e.kind # "Press" THEN "ignore"
  ELSE IF e.code \in {"q", "Esc", "c"} /\ "CONTROL" \in e.modifiers THEN "break"
  ELSE IF e.code = " " THEN "toggle"
  ELSE IF e.code \in {"n", "N", "Right"} THEN "skip"
  ELSE IF e.code = "r" THEN "reset_current"
  ELSE IF e.code = "q" THEN "break"
  ELSE "ignore"

\* the match on key.code in main, arms in source order. The guard
\* `if key.modifiers.contains(CONTROL)` belongs to the whole first arm
\* (all three patterns).
KeyAction(e) ==
  IF e.type # "Key" \/ e.kind # "Press" THEN "ignore"
  ELSE IF e.code \in {"q", "Esc", "c"} /\ "CONTROL" \in e.modifiers THEN "break"
  ELSE IF e.code = " " THEN "toggle"
  ELSE IF e.code \in {"n", "Right"} THEN "skip"
  ELSE IF e.code = "r" THEN "reset_current"
  ELSE IF e.code = "q" THEN "break"
  ELSE "ignore"

\* ---- initial state: after setup_terminal() and PomodoroApp::new ----------
Init ==
  /\ config \in Configs
  /\ phase = "Focus"
  /\ total = config.focus
  /\ remaining = config.focus
  /\ running = FALSE
  /\ completed_focus = 0
  /\ now = 0
  /\ last_tick = 0
  /\ last_redraw = 0
  /\ pc = "poll"
  /\ ev = NoEvent
  /\ terminal = [raw |-> TRUE, alternate |-> TRUE]
  /\ exit_status = "none"
  /\ resumed_at = -1
  /\ bell = FALSE

\* ---- the clock -----------------------------------------------------------
\* wall-clock time passes while the process is alive
Elapse ==
  /\ pc # "exit"
  /\ now < MaxNow
  /\ now' = now + 1
  /\ bell' = FALSE
  /\ UNCHANGED <<config, app, last_redraw, pc, ev, terminal, exit_status, resumed_at>>

\* ---- main loop: input ----------------------------------------------------
\* event::poll(tick)? returned Ok(false)
PollTimeout ==
  /\ pc = "poll"
  /\ pc' = "update"
  /\ bell' = FALSE
  /\ UNCHANGED <<config, app, now, last_redraw, ev, terminal, exit_status, resumed_at>>

\* event::poll(tick)? returned Ok(true)
PollReady ==
  /\ pc = "poll"
  /\ pc' = "read"
  /\ bell' = FALSE
  /\ UNCHANGED <<config, app, now, last_redraw, ev, terminal, exit_status, resumed_at>>

\* event::poll(tick)? returned Err: main returns through `?`
PollError ==
  /\ pc = "poll"
  /\ pc' = "exit"
  /\ exit_status' = "poll_error"
  /\ bell' = FALSE
  /\ UNCHANGED <<config, app, now, last_redraw, ev, terminal, resumed_at>>

\* event::read()? returned Ok(e)
ReadEvent ==
  /\ pc = "read"
  /\ \E e \in Event : ev' = e
  /\ pc' = "match"
  /\ bell' = FALSE
  /\ UNCHANGED <<config, app, now, last_redraw, terminal, exit_status, resumed_at>>

\* event::read()? returned Err
ReadError ==
  /\ pc = "read"
  /\ pc' = "exit"
  /\ exit_status' = "read_error"
  /\ bell' = FALSE
  /\ UNCHANGED <<config, app, now, last_redraw, ev, terminal, resumed_at>>

\* ---- PomodoroApp operations, as dispatched by the match of main ----------
\* variant of reset_current: the reset also pauses the timer
reset_current_Pauses ==
  /\ pc = "match"
  /\ KeyAction(ev) = "reset_current"
  /\ total' = ConfiguredDuration(phase)
  /\ remaining' = ConfiguredDuration(phase)
  /\ running' = FALSE
  /\ pc' = "update"
  /\ ev' = NoEvent
  /\ bell' = FALSE
  /\ UNCHANGED <<config, phase, completed_focus, last_tick, now,
                 last_redraw, terminal, exit_status, resumed_at>>

reset_current ==
  /\ pc = "match"
  /\ KeyAction(ev) = "reset_current"
  /\ total' = ConfiguredDuration(phase)
  /\ remaining' = ConfiguredDuration(phase)
  /\ pc' = "update"
  /\ ev' = NoEvent
  /\ bell' = FALSE
  /\ UNCHANGED <<config, phase, running, completed_focus, last_tick, now,
                 last_redraw, terminal, exit_status, resumed_at>>

\* variant of toggle: the key only starts the timer
toggle_StartOnly ==
  /\ pc = "match"
  /\ KeyAction(ev) = "toggle"
  /\ running' = TRUE
  /\ resumed_at' = IF ~running THEN now ELSE -1
  /\ pc' = "update"
  /\ ev' = NoEvent
  /\ bell' = FALSE
  /\ UNCHANGED <<config, phase, total, remaining, completed_focus, last_tick,
                 now, last_redraw, terminal, exit_status>>

toggle ==
  /\ pc = "match"
  /\ KeyAction(ev) = "toggle"
  /\ running' = ~running
  /\ resumed_at' = IF ~running THEN now ELSE -1
  /\ pc' = "update"
  /\ ev' = NoEvent
  /\ bell' = FALSE
  /\ UNCHANGED <<config, phase, total, remaining, completed_focus, last_tick,
                 now, last_redraw, terminal, exit_status>>

\* skip() = to_next_phase(): phase by the table, then reset_current()
skip ==
  /\ pc = "match"
  /\ KeyAction(ev) = "skip"
  /\ phase' = NextOnSkip(phase)
  /\ total' = ConfiguredDuration(phase')
  /\ remaining' = ConfiguredDuration(phase')
  /\ pc' = "update"
  /\ ev' = NoEvent
  /\ bell' = FALSE
  /\ UNCHANGED <<config, running, completed_focus, last_tick, now,
                 last_redraw, terminal, exit_status, resumed_at>>

\* the two `break` arms
Quit ==
  /\ pc = "match"
  /\ KeyAction(ev) = "break"
  /\ pc' = "restore"
  /\ ev' = NoEvent
  /\ bell' = FALSE
  /\ UNCHANGED <<config, app, now, last_redraw, terminal, exit_status, resumed_at>>

\* variant of Ignore: an ignored event restarts the loop (`continue`)
Ignore_Continue ==
  /\ pc = "match"
  /\ KeyAction(ev) = "ignore"
  /\ pc' = "poll"
  /\ ev' = NoEvent
  /\ bell' = FALSE
  /\ UNCHANGED <<config, app, now, last_redraw, terminal, exit_status, resumed_at>>

\* `_ => {}`, a key event that is not a press, an event that is not a key
Ignore ==
  /\ pc = "match"
  /\ KeyAction(ev) = "ignore"
  /\ pc' = "update"
  /\ ev' = NoEvent
  /\ bell' = FALSE
  /\ UNCHANGED <<config, app, now, last_redraw, terminal, exit_status, resumed_at>>

\* ---- update() with on_finish() -------------------------------------------
\* variant of EarlyReturn: a paused timer with nothing remaining goes on
EarlyReturn_UnlessZero == ~running /\ remaining > 0

\* update: `if !self.running { self.last_tick = now; return; }`
EarlyReturn == ~running

\* update: `if delta >= self.remaining`
Finishes(delta) == delta >= remaining

\* variant of CountOnFinish: the increment is outside the match
CountOnFinish_Always(p, c) == c + 1

\* on_finish: completed_focus after the match (`+= 1` in the Focus arm only)
CountOnFinish(p, c) == IF p = "Focus" THEN c + 1 ELSE c

\* variant of RingsBell: the mute option is not consulted
RingsBell_Always == TRUE

\* on_finish: `if !self.config.mute { print!("\x07"); .. }`
RingsBell == ~config.mute

\* variant of RunningAfterFinish: the next phase waits for the user
RunningAfterFinish_Paused == FALSE

\* on_finish: `self.running = true`
RunningAfterFinish == TRUE

\* on_finish: `completed_focus % long_every` with long_every = 0 panics
\* ("attempt to calculate the remainder with a divisor of zero")
RemainderPanics(p) == p = "Focus" /\ config.long_every = 0

\* update(), c is the value that `completed_focus += 1` (or the break arm)
\* leaves in completed_focus when on_finish runs
UpdateTo(c) ==
  /\ pc = "update"
  /\ last_tick' = now
  /\ resumed_at' = -1
  /\ IF EarlyReturn
     THEN /\ pc' = "draw"
          /\ bell' = FALSE
          /\ UNCHANGED <<phase, total, remaining, running, completed_focus, exit_status>>
     ELSE LET delta == SaturatingDurationSince(now, last_tick) IN
          IF Finishes(delta)
          THEN \* remaining = ZERO; on_finish()
               /\ bell' = RingsBell
               /\ completed_focus' = c
               /\ IF RemainderPanics(phase)
                  THEN \* main unwinds; restore_terminal is not reached
                       /\ remaining' = 0
                       /\ pc' = "exit"
                       /\ exit_status' = "panic"
                       /\ UNCHANGED <<phase, total, running>>
                  ELSE /\ phase' = NextOnFinish(phase, completed_focus')
                       /\ total' = ConfiguredDuration(phase')
                       /\ remaining' = ConfiguredDuration(phase')
                       /\ running' = RunningAfterFinish
                       /\ pc' = "draw"
                       /\ UNCHANGED exit_status
          ELSE /\ remaining' = remaining - delta
               /\ bell' = FALSE
               /\ pc' = "draw"
               /\ UNCHANGED <<phase, total, running, completed_focus, exit_status>>
  /\ UNCHANGED <<config, now, last_redraw, ev, terminal>>

\* the tick does not take completed_focus beyond MaxCompleted
CountWithinBound ==
  \/ EarlyReturn
  \/ ~Finishes(SaturatingDurationSince(now, last_tick))
  \/ CountOnFinish(phase, completed_focus) <= MaxCompleted

\* update() while the count stays within the bound
update ==
  /\ CountWithinBound
  /\ UpdateTo(CountOnFinish(phase, completed_focus))

\* update() with a wrapping counter (u32 `+=` without overflow checks), the
\* width scaled down from 2^32 to MaxCompleted + 1 values
update_wrapping ==
  UpdateTo(CountOnFinish(phase, completed_focus) % (MaxCompleted + 1))

\* ---- main loop: render ---------------------------------------------------
\* last_redraw.elapsed() < 16ms: no draw in this iteration
DrawSkip ==
  /\ pc = "draw"
  /\ SaturatingDurationSince(now, last_redraw) < FrameInterval
  /\ pc' = "poll"
  /\ bell' = FALSE
  /\ UNCHANGED <<config, app, now, last_redraw, ev, terminal, exit_status, resumed_at>>

\* terminal.draw(..)? returned Ok
Draw ==
  /\ pc = "draw"
  /\ SaturatingDurationSince(now, last_redraw) >= FrameInterval
  /\ last_redraw' = now
  /\ pc' = "poll"
  /\ bell' = FALSE
  /\ UNCHANGED <<config, app, now, ev, terminal, exit_status, resumed_at>>

\* terminal.draw(..)? returned Err
DrawError ==
  /\ pc = "draw"
  /\ SaturatingDurationSince(now, last_redraw) >= FrameInterval
  /\ pc' = "exit"
  /\ exit_status' = "draw_error"
  /\ bell' = FALSE
  /\ UNCHANGED <<config, app, now, last_redraw, ev, terminal, resumed_at>>

\* ---- restore_terminal(), reached only after `break` ----------------------
restore_terminal ==
  /\ pc = "restore"
  /\ pc' = "exit"
  /\ \/ /\ terminal' = [raw |-> FALSE, alternate |-> FALSE]
        /\ exit_status' = "ok"
     \/ \* disable_raw_mode()? failed
        /\ terminal' = terminal
        /\ exit_status' = "restore_error"
     \/ \* execute!(LeaveAlternateScreen, ..)? failed
        /\ terminal' = [raw |-> FALSE, alternate |-> TRUE]
        /\ exit_status' = "restore_error"
  /\ bell' = FALSE
  /\ UNCHANGED <<config, app, now, last_redraw, ev, resumed_at>>

Next ==
  \/ Elapse
  \/ PollTimeout
  \/ PollReady
  \/ PollError
  \/ ReadEvent
  \/ ReadError
  \/ reset_current
  \/ toggle
  \/ skip
  \/ Quit
  \/ Ignore
  \/ update
  \/ DrawSkip
  \/ Draw
  \/ DrawError
  \/ restore_terminal

Spec == Init /\ [][Next]_vars

\* ---- the loop running for ever ------------------------------------------
\* an instant one time unit further in the past (the sentinel -1 and the
\* oldest instant 0 stay)
Rebase(t) == IF t > 0 THEN t - 1 ELSE t

\* wall-clock time passes without bound: at MaxNow the origin of the clock
\* moves instead of `now`, differences saturate at MaxNow
ElapseLive ==
  /\ pc # "exit"
  /\ IF now < MaxNow
     THEN /\ now' = now + 1
          /\ UNCHANGED <<last_tick, last_redraw, resumed_at>>
     ELSE /\ now' = now
          /\ last_tick' = Rebase(last_tick)
          /\ last_redraw' = Rebase(last_redraw)
          /\ resumed_at' = Rebase(resumed_at)
  /\ bell' = FALSE
  /\ UNCHANGED <<config, phase, total, remaining, running, completed_focus,
                 pc, ev, terminal, exit_status>>

\* the configurations of the unmuted timer with breaks of one length
LiveConfig == {c \in PomodoroConfig : ~c.mute /\ c.long_break = c.short_break}

InitLive == Init /\ config \in LiveConfig

\* the key presses read while the loop runs for ever: one per match arm
LiveEvent ==
  {e \in KeyEvents : /\ e.kind = "Press"
                     /\ e.modifiers = {}
                     /\ e.code \in {" ", "n", "r", "q", "N"}}

\* event::read()? returned Ok(e)
ReadEventLive ==
  /\ pc = "read"
  /\ \E e \in LiveEvent : ev' = e
  /\ pc' = "match"
  /\ bell' = FALSE
  /\ UNCHANGED <<config, app, now, last_redraw, terminal, exit_status, resumed_at>>

\* one step of main()
LoopStep ==
  \/ PollTimeout
  \/ PollReady
  \/ PollError
  \/ ReadEventLive
  \/ ReadError
  \/ reset_current
  \/ toggle
  \/ skip
  \/ Quit
  \/ Ignore
  \/ update_wrapping
  \/ DrawSkip
  \/ Draw
  \/ DrawError
  \/ restore_terminal

NextLive == ElapseLive \/ LoopStep

\* main() is sequential code that keeps taking its next step, and the clock
\* keeps advancing
LiveSpec ==
  /\ InitLive
  /\ [][NextLive]_vars
  /\ WF_vars(LoopStep)
  /\ WF_vars(ElapseLive)

TypeOK ==
  /\ config \in PomodoroConfig
  /\ phase \in Phase
  /\ total \in 0..MaxDur
  /\ remaining \in 0..MaxDur
  /\ running \in BOOLEAN
  /\ completed_focus \in 0..MaxCompleted
  /\ now \in 0..MaxNow
  /\ last_tick \in 0..MaxNow
  /\ last_redraw \in 0..MaxNow
  /\ pc \in {"poll", "read", "match", "update", "draw", "restore", "exit"}
  /\ ev \in Event \cup {NoEvent}
  /\ terminal \in [raw : BOOLEAN, alternate : BOOLEAN]
  /\ exit_status \in {"none", "ok", "poll_error", "read_error", "draw_error",
                      "restore_error", "panic"}
  /\ resumed_at \in -1..MaxNow
  /\ bell \in BOOLEAN

\* ==== properties ==========================================================

\* the running tick whose delta reaches remaining (a natural completion)
CompletingTick ==
  /\ update
  /\ running
  /\ SaturatingDurationSince(now, last_tick) >= remaining

\* n is a multiple of d (d = 0 has the single multiple 0)
Divisible(n, d) == \E k \in 0..n : n = k * d

\* C1: in every reachable state 0 <= remaining <= total.
C1_RemainingWithinTotal == 0 <= remaining /\ remaining <= total

\* C1 witness: a running countdown has deducted part of a non-zero phase.
C1_Witness == running /\ 0 < remaining /\ remaining < total

\* C2 (as claimed): a tick of a running Focus phase with delta >= remaining adds
\* exactly 1 to completed_focus and moves to LongBreak iff the new count is
\* divisible by long_every, otherwise to ShortBreak; such a tick of a break
\* moves to Focus and keeps the count.
C2_Claim ==
  [][CompletingTick =>
       IF phase = "Focus"
       THEN /\ completed_focus' = completed_focus + 1
            /\ phase' = IF Divisible(completed_focus', config.long_every)
                        THEN "LongBreak" ELSE "ShortBreak"
       ELSE /\ phase' = "Focus"
            /\ completed_focus' = completed_focus]_vars

\* C3: completed_focus changes only in the tick that completes a running
\* Focus phase, and then by +1; every other step leaves it unchanged.
C3_CountOnlyOnFocusCompletion ==
  [][completed_focus' # completed_focus =>
       /\ CompletingTick
       /\ phase = "Focus"
       /\ completed_focus' = completed_focus + 1]_vars

\* C3 witness: a Focus phase was skipped and the count is still 0 (ShortBreak
\* with count 0 is entered by skip only).
C3_Witness == phase = "ShortBreak" /\ completed_focus = 0 /\ pc = "update"

\* the configured duration of a phase, read off the configuration
DurationOf(p) ==
  IF p = "Focus" THEN config.focus
  ELSE IF p = "ShortBreak" THEN config.short_break
  ELSE config.long_break

\* C4: after skip(), after a completion transition (an update that changed
\* the phase) and after reset_current(), remaining = total = the configured
\* duration of the resulting phase.
C4_FullDurationAfterTransition ==
  [][(skip \/ reset_current \/ (update /\ phase' # phase)) =>
       /\ remaining' = total'
       /\ total' = DurationOf(phase')]_vars

\* C4 witness: a natural completion has entered a long break whose duration
\* differs from the other two, and the break starts with that full duration.
C4_Witness ==
  /\ phase = "LongBreak"
  /\ pc = "draw"
  /\ remaining = config.long_break
  /\ config.long_break # config.short_break
  /\ config.long_break # config.focus

\* C5 (as claimed): a running tick with delta >= remaining performs one
\* completion transition: the phase changes, the new phase starts with its
\* full configured duration and last_tick is set to now.
C5_Claim ==
  [][CompletingTick =>
       /\ phase' # phase
       /\ remaining' = DurationOf(phase')
       /\ total' = DurationOf(phase')
       /\ last_tick' = now]_vars

\* C6: skip() goes Focus -> ShortBreak, ShortBreak -> Focus, LongBreak ->
\* Focus, whatever completed_focus and long_every are.
C6_SkipTable ==
  [][skip =>
       phase' = IF phase = "Focus" THEN "ShortBreak" ELSE "Focus"]_vars

\* C6 witness: a short break with a count that is a positive multiple of
\* long_every; a natural completion would have given LongBreak, so it was
\* entered by skip().
C6_Witness ==
  /\ phase = "ShortBreak"
  /\ config.long_every > 0
  /\ completed_focus > 0
  /\ completed_focus % config.long_every = 0

\* C7 (as claimed): when main has exited by a quit key or because polling,
\* reading or drawing failed, raw mode is off and the alternate screen left.
C7_Claim ==
  (pc = "exit" /\ exit_status \in {"ok", "poll_error", "read_error", "draw_error"})
    => (~terminal.raw /\ ~terminal.alternate)

\* the quit bindings of the specification: Ctrl+q, plain q, Esc
IsQuitBinding(e) ==
  /\ e.type = "Key"
  /\ e.kind = "Press"
  /\ \/ e.code = "q" /\ e.modifiers \in {{}, {"CONTROL"}}
     \/ e.code = "Esc"

\* C8 (as claimed): the dispatch of a press of Ctrl+q, of plain q or of Esc
\* (with or without modifier) leaves the loop: the next position of main is
\* restore_terminal, not update.
C8_Claim ==
  [][(pc = "match" /\ IsQuitBinding(ev) /\ pc' # pc) => pc' = "restore"]_vars

\* C9 (as claimed): the tick of the iteration in which toggle() resumed the
\* timer deducts no more than the time elapsed since that toggle().
C9_Claim ==
  [][(update /\ running /\ resumed_at >= 0 /\ phase' = phase /\ exit_status' = "none") =>
       remaining - remaining' <= now - resumed_at]_vars

\* C10: a tick while not running leaves remaining, total, phase, running and
\* completed_focus unchanged and sets last_tick to now, also when remaining
\* is zero.
C10_PausedTickFrame ==
  [][(update /\ ~running) =>
       /\ UNCHANGED <<remaining, total, phase, running, completed_focus>>
       /\ last_tick' = now]_vars

\* C10 witness: a paused timer with zero remaining has just been ticked at a
\* later instant and is still paused in the same phase.
C10_Witness ==
  /\ pc = "draw"
  /\ ~running
  /\ remaining = 0
  /\ now > 0
  /\ last_tick = now

\* C11: an update that changes the phase (a completion transition) ends with
\* running = TRUE, and running goes from TRUE to FALSE in a toggle() step
\* only.
C11_AutoStart ==
  [][/\ (update /\ phase' # phase) => running'
     /\ (running /\ ~running') => toggle]_vars

\* C11 witness: the timer runs in the second phase after the first one
\* completed naturally.
C11_Witness ==
  /\ running
  /\ pc = "draw"
  /\ completed_focus = 1
  /\ phase \in {"ShortBreak", "LongBreak"}
  /\ last_tick = now

\* C13 (as claimed): the timer never runs with long_every = 0 and the
\* remainder of the long-break decision never fails.
C13_Claim ==
  /\ running => config.long_every >= 1
  /\ exit_status # "panic"

\* the key presses that C14 calls ignored: not space, n, Right, r, and not
\* one of the quit keys q and Esc
IsUnboundPress(e) ==
  /\ e.type = "Key"
  /\ e.kind = "Press"
  /\ e.code \notin {" ", "n", "Right", "r", "q", "Esc"}

\* the frame of a dispatch that calls no operation and stays in the loop
DispatchIsNoOp == pc' = "update" /\ UNCHANGED app

\* C14 (as claimed): space only toggles, n and Right only skip, r only
\* resets; every other key press that is not q, Ctrl+q or Esc (e.g. N, R, Q,
\* c with or without modifier), every key release and every non-key event
\* calls no operation and does not leave the loop.
C14_Claim ==
  [][(pc = "match" /\ pc' # pc) =>
       /\ (ev.type = "Key" /\ ev.kind = "Press" /\ ev.code = " ")
            => (toggle /\ UNCHANGED <<phase, total, remaining, completed_focus>>)
       /\ (ev.type = "Key" /\ ev.kind = "Press" /\ ev.code \in {"n", "Right"})
            => (skip /\ UNCHANGED <<running, completed_focus>>)
       /\ (ev.type = "Key" /\ ev.kind = "Press" /\ ev.code = "r")
            => (reset_current /\ UNCHANGED <<phase, running, completed_focus>>)
       /\ (IsUnboundPress(ev) \/ ev.type # "Key" \/ ev.kind # "Press")
            => DispatchIsNoOp]_vars

\* C14 (amended): as C14, with Ctrl+c counted among the quit bindings: the
\* ignored key presses are those that are not space, n, Right, r, q, Esc and
\* not c with the control modifier.
C14_DispatchTable ==
  [][(pc = "match" /\ pc' # pc) =>
       /\ (ev.type = "Key" /\ ev.kind = "Press" /\ ev.code = " ")
            => (running' = ~running
                /\ UNCHANGED <<phase, total, remaining, completed_focus>>
                /\ pc' = "update")
       /\ (ev.type = "Key" /\ ev.kind = "Press" /\ ev.code \in {"n", "Right"})
            => (phase' # phase /\ UNCHANGED <<running, completed_focus>>
                /\ pc' = "update")
       /\ (ev.type = "Key" /\ ev.kind = "Press" /\ ev.code = "r")
            => (UNCHANGED <<phase, running, completed_focus>>
                /\ remaining' = total' /\ pc' = "update")
       /\ ((IsUnboundPress(ev) /\ ~(ev.code = "c" /\ "CONTROL" \in ev.modifiers))
            \/ ev.type # "Key" \/ ev.kind # "Press")
            => DispatchIsNoOp]_vars

\* C14 witness: the timer has run into a break and counted down part of it
\* when the press of an uppercase N is read and dispatched (to no operation).
C14_Witness ==
  /\ pc = "match"
  /\ ev.kind = "Press"
  /\ ev.code = "N"
  /\ running
  /\ phase = "ShortBreak"
  /\ remaining < total

\* C15 (as claimed): the tick of a running timer whose phase has a configured
\* duration of zero performs the completion transition for any delta, and
\* performs one transition only: the phase changes and the timer rests in
\* the new phase with its configured duration, also when that is zero.
C15_Claim ==
  [][(update /\ running /\ DurationOf(phase) = 0) =>
       /\ phase' # phase
       /\ phase' \in (IF phase = "Focus" THEN {"ShortBreak", "LongBreak"} ELSE {"Focus"})
       /\ remaining' = DurationOf(phase')]_vars

\* the edges of the control flow of one loop iteration
LoopEdges ==
  {<<"poll", "update">>, <<"poll", "read">>, <<"poll", "exit">>,
   <<"read", "match">>, <<"read", "exit">>,
   <<"match", "update">>, <<"match", "restore">>,
   <<"update", "draw">>, <<"update", "exit">>,
   <<"draw", "poll">>, <<"draw", "exit">>,
   <<"restore", "exit">>}

\* C17: main moves along the loop edges only, so each iteration polls once,
\* reads at most one event, calls update exactly once after the dispatch and
\* before the render; update is the only step that moves last_tick, a
\* dispatch that does not break goes to update, and the app state is not
\* changed between update and the next poll.
C17_OneTickPerIteration ==
  [][/\ pc' # pc => <<pc, pc'>> \in LoopEdges
     /\ last_tick' # last_tick => (pc = "update" /\ pc' \in {"draw", "exit"})
     /\ (pc = "update" /\ pc' # pc) => last_tick' = now
     /\ (pc = "match" /\ pc' = "restore") => KeyAction(ev) = "break"
     /\ (pc = "draw" /\ pc' # pc) => UNCHANGED app
     /\ ev' # ev => (pc \in {"read", "match"})]_vars

\* C17 witness: an iteration that dispatched nothing has ticked and drawn at
\* a later instant and is back at the poll.
C17_Witness ==
  /\ pc = "poll"
  /\ now > 0
  /\ last_tick = now
  /\ last_redraw = now

\* C18: reset_current() leaves phase, running and completed_focus unchanged,
\* in every phase, running or not, and its result is a fixed point: total
\* and remaining are the configured duration of the (unchanged) phase, which
\* is what a second reset_current() would assign again.
C18_ResetFrame ==
  [][reset_current =>
       /\ UNCHANGED <<phase, running, completed_focus, last_tick>>
       /\ total' = DurationOf(phase)
       /\ remaining' = DurationOf(phase)]_vars

\* C18 witness: a running break is about to be ticked with its full duration
\* again although time has passed since the last tick of a partly consumed
\* phase: the state after `r` in a running long break.
C18_Witness ==
  /\ pc = "update"
  /\ running
  /\ phase = "LongBreak"
  /\ remaining = total
  /\ total > 0
  /\ last_tick > 0

\* C19: whenever the phase is LongBreak, completed_focus is positive and a
\* multiple of long_every (which is then not zero).
C19_LongBreakCount ==
  phase = "LongBreak" =>
    /\ config.long_every > 0
    /\ completed_focus > 0
    /\ completed_focus % config.long_every = 0

\* C19 witness: the long break after the second focus with long_every = 2.
C19_Witness ==
  /\ phase = "LongBreak"
  /\ config.long_every = 2
  /\ completed_focus = 2

\* a behaviour starts with running = FALSE
StartsPaused == ~running

\* C20: running is FALSE initially, changes value only in a toggle() step,
\* and every toggle() step negates it (so two of them restore it); skip(),
\* reset_current() and update() keep its value.
C20_RunningOnlyToggled ==
  /\ StartsPaused
  /\ [][/\ running' # running => toggle
        /\ toggle => running' = ~running
        /\ (skip \/ reset_current \/ update) => running' = running]_vars

\* C20 witness: a phase was skipped while paused and the next phase is paused.
C20_Witness ==
  /\ ~running
  /\ phase = "ShortBreak"
  /\ completed_focus = 0
  /\ pc = "update"

\* C12: a step writes the bell exactly when it is the tick of a running timer
\* with delta >= remaining (a natural completion) and mute is off; one such
\* step writes it once. Hence skip(), reset_current(), toggle(), the other
\* ticks and every step of a muted timer write none, and the bells of a run
\* are as many as its natural completions (none when muted).
C12_BellPerCompletion ==
  [][bell' <=> (CompletingTick /\ ~config.mute)]_vars

\* C12 witness: the bell has just been written by the tick that completed a
\* break of an unmuted timer.
C12_Witness ==
  /\ bell
  /\ ~config.mute
  /\ phase = "Focus"
  /\ completed_focus = 1
  /\ pc = "draw"

\* loop iterations keep occurring (so no quit key, no error, no panic) and
\* the timer is, from some point on, running
C16_Hypothesis == []<>(pc = "poll") /\ <>[]running

\* natural completions keep occurring (the bell of the unmuted timer marks
\* them), Focus and the breaks keep alternating
C16_Cycles == []<>bell /\ []<>(phase = "Focus") /\ []<>(phase # "Focus")

\* C16 (as claimed): if the timer is running, time keeps advancing, loop
\* iterations keep occurring and no quit key is pressed, the current phase
\* eventually completes naturally, again and again, and Focus is entered
\* infinitely often.
C16_Claim == C16_Hypothesis => C16_Cycles

\* no press of n, Right or r is dispatched
NoSkipOrReset ==
  ~(pc = "match" /\ ev.type = "Key" /\ ev.kind = "Press"
      /\ ev.code \in {"n", "Right", "r"})

\* C16 (amended): as C16, provided also that from some point on no skip and
\* no reset key is pressed.
C16_CyclesWithoutSkipOrReset ==
  (C16_Hypothesis /\ <>[]NoSkipOrReset) => C16_Cycles

\* C16 witness: the running timer is back in Focus after the natural
\* completion of a break that followed a completed Focus.
C16_Witness ==
  /\ running
  /\ bell
  /\ phase = "Focus"
  /\ completed_focus >= 1
  /\ config.focus > 0
====
